---- MODULE Spec2Model ----
(***************************************************************************)
(* Model of the sandboxed tool server of starship-bridge-mcp-agent:        *)
(* mcp_server/core/security.py, mcp_server/tools/file_system.py,           *)
(* mcp_server/tools/workspace.py and mcp_server/tools/git.py, on a POSIX   *)
(* filesystem, and of the two orchestrating clients orchestrator/client.py *)
(* and orchestrator_client.py.                                             *)
(*                                                                         *)
(* Text (str) is a sequence of one-character strings, so that the string   *)
(* operations of the code (startswith, split, substring search) are        *)
(* computed as the code computes them.  A pathlib.Path is a sequence of    *)
(* segments, each segment a text; Str renders it the way str(Path) does.   *)
(***************************************************************************)
EXTENDS Integers, Sequences, FiniteSets, TLC

VARIABLES fs, last, nops, created, pc, setting, procs, orch

vars == <<fs, last, nops, created, pc, setting, procs, orch>>

\* ------------------------------------------------------------------ bounds

\* Number of filesystem-changing calls in one behaviour.
MaxOps == 1

\* Number of problems the user enters in one run of an orchestrating client.
MaxProblems == 2

\* ------------------------------------------------------------------- text

\* a local name: F applied to the value v
Bind(v, F(_)) == F(v)

Dot == <<".">>
DotDot == <<".", ".">>
Sep == <<"/">>

\* str.startswith
StartsWith(s, p) ==
    /\ Len(p) <= Len(s)
    /\ SubSeq(s, 1, Len(p)) = p

\* the `in` operator on str
Contains(s, p) ==
    \E i \in 1..(Len(s) - Len(p) + 1) : SubSeq(s, i, i + Len(p) - 1) = p

RECURSIVE SplitRec(_, _)
SplitRec(s, cur) ==
    IF s = <<>> THEN <<cur>>
    ELSE IF Head(s) = "/" THEN <<cur>> \o SplitRec(Tail(s), <<>>)
    ELSE SplitRec(Tail(s), Append(cur, Head(s)))

\* str.split("/")
split(s) == SplitRec(s, <<>>)

RECURSIVE join(_)
\* "/".join(comps)
join(comps) ==
    IF comps = <<>> THEN <<>>
    ELSE IF Len(comps) = 1 THEN comps[1]
    ELSE comps[1] \o Sep \o join(Tail(comps))

ButLast(s) == IF s = <<>> THEN <<>> ELSE SubSeq(s, 1, Len(s) - 1)

\* posixpath.normpath: the number of leading slashes it keeps (0, 1 or 2)
InitialSlashes(path) ==
    IF ~StartsWith(path, Sep) THEN 0
    ELSE IF StartsWith(path, <<"/", "/">>) /\ ~StartsWith(path, <<"/", "/", "/">>) THEN 2
    ELSE 1

RECURSIVE NormComps(_, _, _)
\* posixpath.normpath: the loop over the components
NormComps(comps, new, initial) ==
    IF comps = <<>> THEN new
    ELSE LET comp == Head(comps)
             rest == Tail(comps)
         IN IF comp = <<>> \/ comp = Dot THEN NormComps(rest, new, initial)
            ELSE IF \/ comp # DotDot
                    \/ (initial = 0 /\ new = <<>>)
                    \/ (new # <<>> /\ new[Len(new)] = DotDot)
                 THEN NormComps(rest, Append(new, comp), initial)
            ELSE IF new # <<>> THEN NormComps(rest, ButLast(new), initial)
            ELSE NormComps(rest, new, initial)

\* os.path.normpath on POSIX
normpath(path) ==
    IF path = <<>> THEN Dot
    ELSE LET initial == InitialSlashes(path)
             body == join(NormComps(split(path), <<>>, initial))
             lead == IF initial = 0 THEN <<>>
                     ELSE IF initial = 1 THEN Sep ELSE <<"/", "/">>
             out == lead \o body
         IN IF out = <<>> THEN Dot ELSE out

\* ------------------------------------------------------------------ paths

\* The segments pathlib keeps of a text: empty and "." segments are dropped,
\* ".." segments are kept.
PathSegs(s) == SelectSeq(split(s), LAMBDA c : c # <<>> /\ c # Dot)

IsAbsText(s) == StartsWith(s, Sep)

\* Path.__truediv__: an absolute right operand replaces the left one
PathJoin(base, s) == IF IsAbsText(s) THEN PathSegs(s) ELSE base \o PathSegs(s)

\* str(Path) of an absolute path
Str(p) == Sep \o join(p)

\* Path.parent (the root is its own parent)
Parent(p) == ButLast(p)

\* p is q or below q, compared by segments
IsWithin(p, q) == Len(q) <= Len(p) /\ SubSeq(p, 1, Len(q)) = q

\* --------------------------------------------------------------- filesystem

DirNode == [kind |-> "dir", content |-> <<>>, target |-> <<>>]
FileNode(c) == [kind |-> "file", content |-> c, target |-> <<>>]
LinkNode(t) == [kind |-> "link", content |-> <<>>, target |-> t]

Exists(f, p) == p \in DOMAIN f
IsDir(f, p) == Exists(f, p) /\ f[p].kind = "dir"
IsFile(f, p) == Exists(f, p) /\ f[p].kind = "file"
IsLink(f, p) == Exists(f, p) /\ f[p].kind = "link"

\* f with the entry p set to node n
Put(f, p, n) == [q \in (DOMAIN f) \cup {p} |-> IF q = p THEN n ELSE f[q]]

\* the proper prefixes of p, and p itself
Prefixes(p) == {SubSeq(p, 1, i) : i \in 0..Len(p)}

RECURSIVE RealPath(_, _, _)
\* os.path.realpath (strict=False) of the segments `rest` below the resolved
\* path `acc`: symlinks are followed, ".." pops a resolved segment, a missing
\* entry is kept as written.
RealPath(f, acc, rest) ==
    IF rest = <<>> THEN acc
    ELSE LET name == Head(rest)
             newpath == Append(acc, name)
         IN IF name = DotDot THEN RealPath(f, ButLast(acc), Tail(rest))
            ELSE IF IsLink(f, newpath)
                 THEN RealPath(f, <<>>, f[newpath].target \o Tail(rest))
            ELSE RealPath(f, newpath, Tail(rest))

\* Path.resolve()
resolve(f, p) == RealPath(f, <<>>, p)

\* Path.mkdir(parents=.., exist_ok=..) on a resolved path
mkdir(f, p, parents, exist_ok) ==
    IF Exists(f, p)
    THEN IF exist_ok /\ IsDir(f, p) THEN [err |-> "none", fs |-> f]
         ELSE [err |-> "FileExistsError", fs |-> f]
    ELSE IF \E q \in Prefixes(p) : IsFile(f, q)
    THEN [err |-> "NotADirectoryError", fs |-> f]
    ELSE IF ~parents /\ ~IsDir(f, Parent(p))
    THEN [err |-> "FileNotFoundError", fs |-> f]
    ELSE [err |-> "none",
          fs |-> [q \in (DOMAIN f) \cup Prefixes(p) |->
                    IF q \in DOMAIN f THEN f[q] ELSE DirNode]]

\* Path.write_text(content, encoding="utf-8"): text mode with newline=None
\* writes every "\n" as os.linesep, which is "\n" on POSIX.
RECURSIVE TranslateOut(_)
TranslateOut(text) ==
    IF text = <<>> THEN <<>>
    ELSE IF Head(text) = "\n" THEN <<"\n">> \o TranslateOut(Tail(text))
    ELSE <<Head(text)>> \o TranslateOut(Tail(text))

\* Path.read_text(encoding="utf-8"): text mode with newline=None reads in
\* universal-newlines mode: "\r\n" and a lone "\r" are returned as "\n".
RECURSIVE TranslateIn(_)
TranslateIn(data) ==
    IF data = <<>> THEN <<>>
    ELSE IF Head(data) = "\r"
         THEN IF Len(data) >= 2 /\ data[2] = "\n"
              THEN <<"\n">> \o TranslateIn(Tail(Tail(data)))
              ELSE <<"\n">> \o TranslateIn(Tail(data))
    ELSE <<Head(data)>> \o TranslateIn(Tail(data))

\* Path.write_text on a resolved path: open(p, "w") then write
write_text(f, p, content) ==
    IF IsDir(f, p) THEN [err |-> "IsADirectoryError", fs |-> f]
    ELSE IF \E q \in Prefixes(Parent(p)) : IsFile(f, q)
    THEN [err |-> "NotADirectoryError", fs |-> f]
    ELSE IF ~IsDir(f, Parent(p)) THEN [err |-> "FileNotFoundError", fs |-> f]
    ELSE [err |-> "none", fs |-> Put(f, p, FileNode(TranslateOut(content)))]

\* Path.read_text on a resolved regular file
read_text(f, p) == TranslateIn(f[p].content)

\* Path.iterdir(): the entries directly below p
iterdir(f, p) == {q \in DOMAIN f : Len(q) = Len(p) + 1 /\ IsWithin(q, p)}

\* the last segment of a path (Path.name)
Name(p) == p[Len(p)]

\* ---------------------------------------------------------- configuration

\* config.DIRECTORY_SANDBOX: an absolute path, validated at start-up
DIRECTORY_SANDBOX == <<"/", "s">>

SandboxRoot == PathSegs(DIRECTORY_SANDBOX)

\* --------------------------------------------------------------- resolver

\* the emptiness checks without the one on workspace_id
ArgumentErrorNoWorkspaceCheck(workspace_id, relative_path) ==
    \/ relative_path = <<>>
    \/ DIRECTORY_SANDBOX = <<>>

\* security.py: the three emptiness checks that raise ValueError
ArgumentError(workspace_id, relative_path) ==
    \/ workspace_id = <<>>
    \/ relative_path = <<>>
    \/ DIRECTORY_SANDBOX = <<>>

\* the check without its startswith("..") disjunct
HasTraversalEmbeddedOnly(normalized) ==
    \/ Contains(normalized, <<"/", ".", ".", "/">>)
    \/ Contains(normalized, <<"\\", ".", ".", "\\">>)

\* security.py: the check on the normalized relative path
HasTraversal(normalized) ==
    \/ StartsWith(normalized, DotDot)
    \/ Contains(normalized, <<"/", ".", ".", "/">>)
    \/ Contains(normalized, <<"\\", ".", ".", "\\">>)

\* security.py: str(workspace_root).startswith(str(sandbox_root))
WorkspaceInSandbox(workspace_root, sandbox_root) ==
    StartsWith(Str(workspace_root), Str(sandbox_root))

\* security.py: str(target_path).startswith(str(workspace_root))
TargetInWorkspace(target_path, workspace_root) ==
    StartsWith(Str(target_path), Str(workspace_root))

\* the parent directories made without exist_ok
EnsureParentExistOkOmitted == FALSE

\* security.py: the exist_ok=True of target_path.parent.mkdir
EnsureParentExistOk == TRUE

Rejected(kind, f) == [out |-> kind, path |-> <<>>, wsroot |-> <<>>, fs |-> f]

resolve_and_validate_path(f, workspace_id, relative_path, ensure_parent_exists, check_existence) ==
    IF ArgumentError(workspace_id, relative_path) THEN Rejected("ValueError", f)
    ELSE Bind(normpath(relative_path), LAMBDA normalized_relative_path :
    IF HasTraversal(normalized_relative_path)
    THEN Rejected("SandboxViolationError", f)
    ELSE
    Bind(resolve(f, PathSegs(DIRECTORY_SANDBOX)), LAMBDA sandbox_root :
    Bind(resolve(f, PathJoin(sandbox_root, workspace_id)), LAMBDA workspace_root :
    Bind(resolve(f, PathJoin(workspace_root, normalized_relative_path)),
         LAMBDA target_path :
    IF ~WorkspaceInSandbox(workspace_root, sandbox_root)
    THEN Rejected("SandboxViolationError", f)
    ELSE IF ~TargetInWorkspace(target_path, workspace_root)
    THEN Rejected("SandboxViolationError", f)
    ELSE
    Bind(IF ensure_parent_exists
         THEN mkdir(f, Parent(target_path), TRUE, EnsureParentExistOk)
         ELSE [err |-> "none", fs |-> f], LAMBDA made :
    IF made.err # "none" THEN Rejected(made.err, made.fs)
    ELSE IF ensure_parent_exists
            /\ ~TargetInWorkspace(Parent(target_path), workspace_root)
    THEN Rejected("SandboxViolationError", made.fs)
    ELSE IF check_existence /\ ~Exists(made.fs, target_path)
    THEN Rejected("FileNotFoundError", made.fs)
    ELSE [out |-> "ok", path |-> target_path, wsroot |-> workspace_root,
          fs |-> made.fs])))))

\* ------------------------------------------------------- tool responses

Return(v) == [kind |-> "return", err |-> "none", value |-> v]
Raise(e) == [kind |-> "raise", err |-> e, value |-> <<>>]

\* what a tool keeps of the resolver's answer
Res(r) == [out |-> r.out, path |-> r.path, wsroot |-> r.wsroot]

NoRes == [out |-> "none", path |-> <<>>, wsroot |-> <<>>]

\* `raise IOError(...)` in an `except IOError` handler: every OSError other
\* than the ones re-raised before it leaves as a plain OSError
AsIOError(e) == "OSError"

\* ------------------------------------------------------------ file tools

write_file(f, workspace_id, relative_path, content) ==
    Bind(resolve_and_validate_path(f, workspace_id, relative_path, TRUE, FALSE),
         LAMBDA r :
    IF r.out \in {"ValueError", "SandboxViolationError"}
    THEN [fs |-> r.fs, resp |-> Raise(r.out), res |-> Res(r)]
    ELSE IF r.out # "ok"
    THEN [fs |-> r.fs, resp |-> Raise(AsIOError(r.out)), res |-> Res(r)]
    ELSE Bind(write_text(r.fs, r.path, content), LAMBDA w :
         IF w.err # "none"
         THEN [fs |-> w.fs, resp |-> Raise(AsIOError(w.err)), res |-> Res(r)]
         ELSE [fs |-> w.fs, resp |-> Return(TRUE), res |-> Res(r)]))

\* read_file: the error it raises when the path is not a regular file
ReadNotFileError == "FileNotFoundError"

read_file(f, workspace_id, relative_path) ==
    Bind(resolve_and_validate_path(f, workspace_id, relative_path, FALSE, TRUE),
         LAMBDA r :
    IF r.out # "ok"
    THEN [fs |-> r.fs, resp |-> Raise(r.out), res |-> Res(r)]
    ELSE IF ~IsFile(r.fs, r.path)
    THEN [fs |-> r.fs, resp |-> Raise(ReadNotFileError), res |-> Res(r)]
    ELSE [fs |-> r.fs, resp |-> Return(read_text(r.fs, r.path)), res |-> Res(r)])

\* the orders in which Path.iterdir() may yield the names below p
Orders(names) ==
    {o \in [1..Cardinality(names) -> names] :
        \A i, j \in 1..Cardinality(names) : o[i] = o[j] => i = j}

\* the names of everything below p, as Path.rglob would collect them
ListedNamesRecursive(f, p) == {Name(q) : q \in {x \in DOMAIN f : IsWithin(x, p) /\ x # p}}

\* the names the list comprehension of list_directory collects
ListedNames(f, p) == {Name(q) : q \in iterdir(f, p)}

\* the error read_file uses for a path of the wrong kind
ListNotDirErrorAsInRead == "FileNotFoundError"

\* list_directory: the error it raises when the path is not a directory
ListNotDirError == "NotADirectoryError"

list_directory(f, workspace_id, relative_path, order) ==
    Bind(resolve_and_validate_path(f, workspace_id, relative_path, FALSE, TRUE),
         LAMBDA r :
    IF r.out # "ok"
    THEN [fs |-> r.fs, resp |-> Raise(r.out), res |-> Res(r)]
    ELSE IF ~IsDir(r.fs, r.path)
    THEN [fs |-> r.fs, resp |-> Raise(ListNotDirError), res |-> Res(r)]
    ELSE [fs |-> r.fs, resp |-> Return(order), res |-> Res(r)])

\* the iteration orders open to a list_directory call
ListOrders(f, workspace_id, relative_path) ==
    Bind(resolve_and_validate_path(f, workspace_id, relative_path, FALSE, TRUE),
         LAMBDA r :
    IF r.out = "ok" /\ IsDir(r.fs, r.path)
    THEN Orders(ListedNames(r.fs, r.path))
    ELSE {<<>>})

\* mkdir called without exist_ok
CreateDirectoryExistOkOmitted == FALSE

\* create_directory: the exist_ok=True it passes to mkdir
CreateDirectoryExistOk == TRUE

\* an except IOError handler that answers false
CreateFailedReturnsFalse(e) == Return(FALSE)

\* file_system.py: create_directory's `except IOError` handler raises IOError
CreateFailed(e) == Raise(AsIOError(e))

create_directory(f, workspace_id, relative_path) ==
    Bind(resolve_and_validate_path(f, workspace_id, relative_path, FALSE, FALSE),
         LAMBDA r :
    IF r.out \in {"ValueError", "SandboxViolationError"}
    THEN [fs |-> r.fs, resp |-> Raise(r.out), res |-> Res(r)]
    ELSE IF r.out # "ok"
    THEN [fs |-> r.fs, resp |-> CreateFailed(r.out), res |-> Res(r)]
    ELSE Bind(mkdir(r.fs, r.path, TRUE, CreateDirectoryExistOk), LAMBDA m :
         IF m.err # "none"
         THEN [fs |-> m.fs, resp |-> CreateFailed(m.err), res |-> Res(r)]
         ELSE IF ~IsDir(m.fs, r.path)
         THEN [fs |-> m.fs, resp |-> CreateFailed("IOError"), res |-> Res(r)]
         ELSE [fs |-> m.fs, resp |-> Return(TRUE), res |-> Res(r)]))

\* ------------------------------------------------------ workspace manager

\* safe_name[:50]
SlugLimit == 50

\* uuid.uuid4().hex[:8]
HexLen == 8

None == <<"None">>

\* the characters of the model's alphabet that \w and "-" do not match
NonWordChars == {" ", "/", ".", "\\"}

Whitespace == {" "}

RECURSIVE lstrip(_)
lstrip(s) ==
    IF s # <<>> /\ Head(s) \in Whitespace THEN lstrip(Tail(s)) ELSE s

RECURSIVE rstrip(_)
rstrip(s) ==
    IF s # <<>> /\ s[Len(s)] \in Whitespace THEN rstrip(ButLast(s)) ELSE s

\* str.strip()
strip(s) == rstrip(lstrip(s))

\* the name used as it was given
SubNonWordKept(s, inrun) == s

RECURSIVE SubNonWord(_, _)
\* re.sub(r'[^\w-]+', '_', s): every run of non-word characters becomes "_"
SubNonWord(s, inrun) ==
    IF s = <<>> THEN <<>>
    ELSE IF Head(s) \notin NonWordChars
    THEN <<Head(s)>> \o SubNonWord(Tail(s), FALSE)
    ELSE IF inrun THEN SubNonWord(Tail(s), TRUE)
    ELSE <<"_">> \o SubNonWord(Tail(s), TRUE)

Take(s, n) == IF Len(s) <= n THEN s ELSE SubSeq(s, 1, n)

safe_name(project_name) == Take(SubNonWord(strip(project_name), FALSE), SlugLimit)

\* f"ws_{safe_name}_{uuid.uuid4().hex[:8]}"
WorkspaceId(project_name, hex) ==
    <<"w", "s", "_">> \o safe_name(project_name) \o <<"_">> \o hex

Failure(id, error) ==
    [success |-> FALSE, workspace_id |-> id, absolute_path |-> None, error |-> error]

\* mkdir told to accept an existing directory
CreateWorkspaceExistOkGiven == TRUE

\* create_workspace: the exist_ok=False it passes to mkdir
CreateWorkspaceExistOk == FALSE

\* the messages of the except branches, by their kind
Conflict == <<"Workspace creation conflict">>

create_workspace(f, project_name, hex) ==
    IF project_name = <<>>
    THEN [fs |-> f, resp |-> Return(Failure(None, <<"ValueError">>)), res |-> NoRes]
    ELSE
    Bind(WorkspaceId(project_name, hex), LAMBDA workspace_id :
    Bind(resolve_and_validate_path(f, workspace_id, Dot, FALSE, FALSE), LAMBDA r :
    IF r.out # "ok"
    THEN [fs |-> r.fs, resp |-> Return(Failure(None, <<r.out>>)), res |-> Res(r)]
    ELSE Bind(mkdir(r.fs, r.path, TRUE, CreateWorkspaceExistOk), LAMBDA m :
         IF m.err = "FileExistsError"
         THEN [fs |-> m.fs,
               resp |-> Return(Failure(workspace_id, Conflict)),
               res |-> Res(r)]
         ELSE IF m.err # "none"
         THEN [fs |-> m.fs,
               resp |-> Return(Failure(workspace_id, <<"OS error">>)),
               res |-> Res(r)]
         ELSE [fs |-> m.fs,
               resp |-> Return([success |-> TRUE,
                                workspace_id |-> workspace_id,
                                absolute_path |-> Str(r.path),
                                error |-> None]),
               res |-> Res(r)])))

\* ------------------------------------------------------------- inputs

Hex0 == [i \in 1..HexLen |-> "0"]

\* the values uuid4().hex[:8] takes in the model
HexValues == {Hex0}

ProjectNames == {<<>>, <<"p">>, <<"p", "_">> \o Hex0, <<" ", "p", "/", "q">>}

\* the ids create_workspace hands out for the two projects: the first is a
\* string prefix of the second
WsA == WorkspaceId(<<"p">>, Hex0)
WsAB == WorkspaceId(<<"p", "_">> \o Hex0, Hex0)

DirA == Append(SandboxRoot, WsA)
DirAB == Append(SandboxRoot, WsAB)

\* a sibling of the sandbox root whose name starts with the root's name
OutsideId == <<".", ".", "/", "s", "b">>

\* an id with a separator: a directory two levels below the sandbox root
NestedId == <<"a", "/", "b">>

WorkspaceIds == {WsA, WsAB, <<>>, OutsideId, NestedId}

RelPaths ==
    { <<>>, Dot, <<"f">>, <<"d", "/", "f">>,
      <<"d", "/", ".", ".", "/", "f">>,
      <<"d", "/", ".", ".", "/", ".", ".", "/", "f">>,
      DotDot \o Sep \o WsAB \o <<"/", "f">>,
      DIRECTORY_SANDBOX \o Sep \o WsAB \o <<"/", "f">>,
      <<"l", "/", "f">>,
      <<".", ".", "n">> }

\* the paths given to create_directory: also one below the name f
DirPaths == RelPaths \cup { <<"f", "/", "g">> }

\* the directories given to the git tools: empty, the workspace root, a name
\* that may be a file, a directory or missing, a path that climbs out, and
\* the absolute path of the directory of workspace WsAB
GitWorkspaces == {WsA, WsAB, <<>>}

GitDirs ==
    { <<>>, Dot, <<"f">>, <<"d", "/", ".", ".", "/", ".", ".", "/", "f">>,
      DIRECTORY_SANDBOX \o Sep \o WsAB }

Contents == { <<>>, <<"x", "\r", "\n">> }

\* ---------------------------------------------------------- git tools

GitDir == <<".", "g", "i", "t">>

\* the repositories a clone may name: one holds a regular file f, the other a
\* symbolic link l to the directory of workspace WsAB
RepoFile == <<"repo-file">>
RepoLink == <<"repo-link">>
Repos == {RepoFile, RepoLink}

\* " ".join(full_command)
RECURSIVE JoinSpace(_)
JoinSpace(words) ==
    IF words = <<>> THEN <<>>
    ELSE IF Len(words) = 1 THEN words[1]
    ELSE words[1] \o <<" ">> \o JoinSpace(Tail(words))

\* git looks for .git in the working directory and above it
InRepo(f, cwd) == \E q \in Prefixes(cwd) : IsDir(f, Append(q, GitDir))

\* the working tree `git clone <url> .` leaves in an empty directory cwd
Cloned(f, cwd, url) ==
    LET g == Put(f, Append(cwd, GitDir), DirNode)
    IN IF url = RepoLink
       THEN Put(g, Append(cwd, <<"l">>), LinkNode(DirAB))
       ELSE Put(g, Append(cwd, <<"f">>), FileNode(<<"x">>))

ProcessFailed(f) ==
    [returncode |-> 128, stdout |-> <<>>, stderr |-> <<"fatal">>, fs |-> f]

ProcessDone(f) ==
    [returncode |-> 0, stdout |-> <<>>, stderr |-> <<>>, fs |-> f]

\* subprocess.run(["git"] + command_args, cwd=cwd): what the git binary does.
\* `pick` is the part the server does not control (network, remote state).
GitProcess(f, cwd, command_args, pick) ==
    IF command_args[1] = <<"clone">>
    THEN IF pick = "ok" /\ iterdir(f, cwd) = {} /\ command_args[2] \in Repos
         THEN ProcessDone(Cloned(f, cwd, command_args[2]))
         ELSE ProcessFailed(f)
    ELSE IF pick = "ok" /\ InRepo(f, cwd) THEN ProcessDone(f)
    ELSE ProcessFailed(f)

GitKeys == {"command", "stdout", "stderr", "returncode", "success"}

\* the dict of the two except branches: three keys only
GitErrorResult(err) ==
    [keys |-> {"success", "stderr", "returncode"}, command |-> None,
     stdout |-> None, stderr |-> <<err>>, returncode |-> -1, success |-> FALSE]

\* an except clause that lets the error leave the helper
Uncaught(err) == Raise(err)

\* the two except clauses of _run_git_command: the error becomes a result
Caught(err) == Return(GitErrorResult(err))

\* what happens to the git binary is outside the server: it exits with
\* status 0 ("ok") or with a failure status ("fail"), or it cannot be
\* started at all ("nospawn": subprocess.run raises FileNotFoundError)
Picks == {"ok", "fail", "nospawn"}

\* one call of _run_git_command: its command, the cwd given to subprocess.run
\* (empty when subprocess.run was not reached), what became of the process
\* ("none": subprocess.run was not reached, "nospawn", "exited"), the exit
\* status of a process that exited, and the call's response
Ran(command_args, cwd, process, exit, resp) ==
    [args |-> command_args, cwd |-> cwd, process |-> process, exit |-> exit,
     resp |-> resp]

\* git.py: cwd=working_dir_path
WorkingDir(working_dir_path) == working_dir_path

\* a call that ended in an except clause
GitFailed(f, r, command_args, process, err) ==
    [fs |-> f, resp |-> Caught(err), res |-> Res(r),
     ran |-> <<Ran(command_args, IF process = "none" THEN <<>> ELSE WorkingDir(r.path),
                   process, 0, Caught(err))>>]

\* the result dict built from a finished process
GitResult(full_command, result) ==
    Return([keys |-> GitKeys,
            command |-> JoinSpace(full_command),
            stdout |-> strip(result.stdout),
            stderr |-> strip(result.stderr),
            returncode |-> result.returncode,
            success |-> (result.returncode = 0)])

run_git_command(f, workspace_id, relative_dir, command_args, pick) ==
    Bind(resolve_and_validate_path(f, workspace_id, relative_dir, FALSE, TRUE),
         LAMBDA r :
    IF r.out # "ok" THEN GitFailed(r.fs, r, command_args, "none", r.out)
    ELSE IF ~IsDir(r.fs, r.path)
    THEN GitFailed(r.fs, r, command_args, "none", "NotADirectoryError")
    ELSE IF pick = "nospawn"
    THEN GitFailed(r.fs, r, command_args, "nospawn", "FileNotFoundError")
    ELSE
    Bind(GitProcess(r.fs, WorkingDir(r.path), command_args, pick), LAMBDA result :
         [fs |-> result.fs,
          resp |-> GitResult(<<<<"git">>>> \o command_args, result),
          res |-> Res(r),
          ran |-> <<Ran(command_args, WorkingDir(r.path), "exited", result.returncode,
                        GitResult(<<<<"git">>>> \o command_args, result))>>]))

\* git_commit going on to the commit whatever `git add` answered
AddFailedIgnored(add_result) == FALSE

\* git_commit: `if not add_result["success"]`
AddFailed(add_result) == ~add_result.success

AddArgs == <<<<"add">>, Dot>>

CommitArgs(message) == <<<<"commit">>, <<"-m">>, message>>

\* pick1 is the fate of the `git add .` process, pick2 of `git commit`
git_commit(f, workspace_id, message, add_all, directory, pick1, pick2) ==
    IF add_all
    THEN Bind(run_git_command(f, workspace_id, directory, AddArgs, pick1),
              LAMBDA add :
         IF AddFailed(add.resp.value) THEN add
         ELSE Bind(run_git_command(add.fs, workspace_id, directory,
                                   CommitArgs(message), pick2),
                   LAMBDA commit :
              [fs |-> commit.fs, resp |-> commit.resp, res |-> commit.res,
               ran |-> add.ran \o commit.ran]))
    ELSE run_git_command(f, workspace_id, directory, CommitArgs(message), pick2)

git_clone(f, workspace_id, repo_url, directory, pick) ==
    run_git_command(f, workspace_id, directory, <<<<"clone">>, repo_url, Dot>>, pick)

git_diff_staged(f, workspace_id, directory, pick) ==
    run_git_command(f, workspace_id, directory, <<<<"diff">>, <<"--staged">>>>, pick)

\* ------------------------------------------------------------ the server

\* the sandbox directory main.py ensures at start-up
EmptySandbox == (<<>> :> DirNode) @@ (SandboxRoot :> DirNode)

\* the sandbox outlives the server: an earlier run may have created workspaces
SandboxWithA == create_workspace(EmptySandbox, <<"p">>, Hex0).fs
SandboxWithBoth == create_workspace(SandboxWithA, <<"p", "_">> \o Hex0, Hex0).fs

\* `last` is the call just served, until its response is delivered: the tool,
\* the workspace id and relative path given to the resolver, the tool's other
\* argument, the resolver's answer (out, path, wsroot; out is "none" when the
\* resolver was not called), whether the call changed the filesystem, and the
\* tool's response, and the calls of _run_git_command it made (ran).
NoCall ==
    [op |-> "none", ws |-> <<>>, rel |-> <<>>, arg |-> <<>>,
     out |-> "none", path |-> <<>>, wsroot |-> <<>>, changed |-> FALSE,
     resp |-> Return(<<>>), ran |-> <<>>]

\* the server model has no concurrent callers and no orchestrating client
NoProcs == <<>>
NoClient == [client |-> "none"]

\* `created` is a history of the responses: the workspace ids that
\* create_workspace has returned with success true.  `pc` is the server's
\* position (start, serving, exit) and `setting` the DIRECTORY_SANDBOX value
\* it was started with.
Init ==
    /\ fs \in {EmptySandbox, SandboxWithA, SandboxWithBoth}
    /\ last = NoCall
    /\ nops = 0
    /\ created = {}
    /\ procs = NoProcs
    /\ orch = NoClient
    /\ pc = "serving"
    /\ setting = DIRECTORY_SANDBOX

\* The server handles one request at a time: a request is taken only when the
\* previous response has been delivered.  The step is the call's effect on the
\* filesystem, and its response is then in flight.
Step(op, ws, rel, arg, call) ==
    /\ call.fs # fs => nops < MaxOps
    /\ fs' = call.fs
    /\ nops' = IF call.fs # fs THEN nops + 1 ELSE nops
    /\ last' = [op |-> op, ws |-> ws, rel |-> rel, arg |-> arg,
                out |-> call.res.out, path |-> call.res.path,
                wsroot |-> call.res.wsroot, changed |-> (call.fs # fs),
                resp |-> call.resp,
                ran |-> IF "ran" \in DOMAIN call THEN call.ran ELSE <<>>]
    /\ created' = IF op = "create_workspace" /\ call.resp.value.success
                  THEN created \cup {call.resp.value.workspace_id}
                  ELSE created
    /\ UNCHANGED <<pc, setting, procs, orch>>

\* no response is in flight
Idle == pc = "serving" /\ last.op = "none"

Flags(ensure, check) ==
    <<IF ensure THEN "ensure" ELSE "-", IF check THEN "check" ELSE "-">>

\* a direct call of the resolver
Resolve ==
    /\ Idle
    /\ \E ws \in WorkspaceIds, rel \in RelPaths, ensure \in BOOLEAN, check \in BOOLEAN :
        Bind(resolve_and_validate_path(fs, ws, rel, ensure, check), LAMBDA r :
             Step("resolve", ws, rel, Flags(ensure, check),
                  [fs |-> r.fs, res |-> Res(r),
                   resp |-> IF r.out = "ok" THEN Return(r.path) ELSE Raise(r.out)]))

WriteFile ==
    /\ Idle
    /\ \E ws \in WorkspaceIds, rel \in RelPaths, content \in Contents :
        Step("write_file", ws, rel, content, write_file(fs, ws, rel, content))

ReadFile ==
    /\ Idle
    /\ \E ws \in WorkspaceIds, rel \in RelPaths :
        Step("read_file", ws, rel, <<>>, read_file(fs, ws, rel))

ListDirectory ==
    /\ Idle
    /\ \E ws \in WorkspaceIds, rel \in RelPaths :
        \E order \in ListOrders(fs, ws, rel) :
            Step("list_directory", ws, rel, <<>>, list_directory(fs, ws, rel, order))

CreateDirectory ==
    /\ Idle
    /\ \E ws \in WorkspaceIds, rel \in DirPaths :
        Step("create_directory", ws, rel, <<>>, create_directory(fs, ws, rel))

CreateWorkspace ==
    /\ Idle
    /\ \E project_name \in ProjectNames, hex \in HexValues :
        Step("create_workspace",
             IF project_name = <<>> THEN <<>> ELSE WorkspaceId(project_name, hex),
             Dot, project_name,
             create_workspace(fs, project_name, hex))

GitClone ==
    /\ Idle
    /\ \E ws \in GitWorkspaces, rel \in GitDirs, pick \in Picks :
      \E url \in (IF pick = "ok" THEN Repos ELSE {RepoFile}) :
        Step("git_clone", ws, rel, url, git_clone(fs, ws, url, rel, pick))

GitDiffStaged ==
    /\ Idle
    /\ \E ws \in GitWorkspaces, rel \in GitDirs, pick \in Picks :
        Step("git_diff_staged", ws, rel, <<>>, git_diff_staged(fs, ws, rel, pick))

Messages == {<<"m">>}

GitCommit ==
    /\ Idle
    /\ \E ws \in GitWorkspaces, rel \in GitDirs, message \in Messages, add_all \in BOOLEAN :
      \E pick1 \in (IF add_all THEN Picks ELSE {"ok"}) :
      \E pick2 \in (IF pick1 = "ok" THEN Picks ELSE {"ok"}) :
        Step("git_commit", ws, rel,
             [message |-> message, add_all |-> add_all],
             git_commit(fs, ws, message, add_all, rel, pick1, pick2))

\* the response in flight reaches the requester
Deliver ==
    /\ last.op # "none"
    /\ last' = NoCall
    /\ UNCHANGED <<fs, nops, created, pc, setting, procs, orch>>

Next ==
    \/ Deliver
    \/ Resolve
    \/ WriteFile
    \/ ReadFile
    \/ ListDirectory
    \/ CreateDirectory
    \/ CreateWorkspace
    \/ GitClone
    \/ GitDiffStaged
    \/ GitCommit

Spec == Init /\ [][Next]_vars

\* ------------------------------------------------------------ properties

\* the resolver was called by the last call served
Resolved == last.out # "none"

FileVcsOps ==
    {"write_file", "read_file", "list_directory", "create_directory",
     "git_clone", "git_diff_staged", "git_commit"}

\* the canonical directory sandbox_root/workspace_id
WorkspaceDir(f, workspace_id) == resolve(f, PathJoin(SandboxRoot, workspace_id))

\* the entries of f at or below the directory d
Under(f, d) == [q \in {x \in DOMAIN f : IsWithin(x, d)} |-> f[q]]

\* C1: whenever resolve_and_validate_path returns a path, the path is the
\* canonical workspace directory sandbox_root/workspace_id or a descendant of
\* it, compared by path segments.
C1_PathInsideWorkspace ==
    (Resolved /\ last.out = "ok") => IsWithin(last.path, last.wsroot)

\* C2: for a non-empty workspace_id the resolver returns a path only if the
\* canonical directory sandbox_root/workspace_id lies inside the sandbox root,
\* and rejects with SandboxViolation otherwise.
C2_WorkspaceInsideSandbox ==
    (Resolved /\ last.ws # <<>> /\ last.rel # <<>>) =>
        /\ last.out = "ok" => IsWithin(last.wsroot, SandboxRoot)
        /\ ~IsWithin(WorkspaceDir(fs, last.ws), SandboxRoot) =>
               last.out = "SandboxViolationError"

\* the relative path has a segment that is exactly ".."
HasParentSegment(rel) == \E i \in DOMAIN split(rel) : split(rel)[i] = DotDot

RECURSIVE Climbs(_, _)
\* reading the segments left to right, the ".." segments at some point
\* outnumber the ordinary segments before them
Climbs(segs, depth) ==
    IF segs = <<>> THEN FALSE
    ELSE IF Head(segs) = DotDot
    THEN depth = 0 \/ Climbs(Tail(segs), depth - 1)
    ELSE IF Head(segs) = <<>> \/ Head(segs) = Dot THEN Climbs(Tail(segs), depth)
    ELSE Climbs(Tail(segs), depth + 1)

\* a relative path that is not absolute and climbs above its starting point
ClimbsOut(rel) == ~IsAbsText(rel) /\ Climbs(split(rel), 0)

C4_NoCrossWorkspaceAccess ==
    [][\A A, B \in {WsA, WsAB} :
          (/\ A # B
           /\ IsDir(fs, Append(SandboxRoot, A))
           /\ IsDir(fs, Append(SandboxRoot, B))
           /\ last'.op \in FileVcsOps
           /\ last'.ws = A)
          => /\ Under(fs', Append(SandboxRoot, B)) = Under(fs, Append(SandboxRoot, B))
             /\ ~(last'.out = "ok" /\ IsWithin(last'.path, Append(SandboxRoot, B)))]_vars

\* C5: no file operation and no VCS operation creates a workspace directory:
\* if sandbox_root/workspace_id does not exist before the call, it does not
\* exist after it (stated for ids that name an entry directly below the
\* sandbox root).
C5_NoImplicitWorkspace ==
    [][(/\ last'.op \in FileVcsOps
        /\ last'.ws # <<>>
        /\ WorkspaceDir(fs, last'.ws) = Append(SandboxRoot, last'.ws)
        /\ ~Exists(fs, WorkspaceDir(fs, last'.ws)))
       => ~Exists(fs', WorkspaceDir(fs, last'.ws))]_vars

\* C6: when the resolver rejects with SandboxViolation inside a tool, the
\* tool's response is an error of that kind.
C6_SandboxViolationSurfaced ==
    (last.op # "none" /\ last.out = "SandboxViolationError") =>
        /\ last.resp.kind = "raise"
        /\ last.resp.err = "SandboxViolationError"

\* C7: the resolver rejects with ValueError, not SandboxViolation, whenever
\* workspace_id or relative_path is empty, whatever the other argument is,
\* and leaves the filesystem as it was.
C7_EmptyArgumentIsValueError ==
    (Resolved /\ (last.ws = <<>> \/ last.rel = <<>>)) =>
        /\ last.out = "ValueError"
        /\ ~last.changed

C7_Witness ==
    /\ last.op = "resolve"
    /\ last.ws = <<>>
    /\ ClimbsOut(last.rel)
    /\ last.arg = Flags(TRUE, TRUE)
    /\ last.out = "ValueError"

\* C8: if write_file(ws, p, X) returned true, the read_file(ws, p) that
\* follows returns exactly X (stated for ids that name a directory directly
\* below the sandbox root).
C8_WriteReadRoundTrip ==
    (/\ last.op = "write_file"
     /\ last.resp.kind = "return"
     /\ last.wsroot = Append(SandboxRoot, last.ws)) =>
        /\ read_file(fs, last.ws, last.rel).resp.kind = "return"
        /\ read_file(fs, last.ws, last.rel).resp.value = last.arg

\* the names n for which the directory d has an entry d/n
ChildNames(f, d) ==
    {n \in {q[Len(q)] : q \in {x \in DOMAIN f : x # <<>>}} : Exists(f, Append(d, n))}

\* C9: a list_directory that returns gives exactly the names of the immediate
\* children (files and subdirectories) of the directory, each name once.
C9_ListIsChildren ==
    (last.op = "list_directory" /\ last.resp.kind = "return") =>
        /\ \A i, j \in DOMAIN last.resp.value :
               last.resp.value[i] = last.resp.value[j] => i = j
        /\ {last.resp.value[i] : i \in DOMAIN last.resp.value}
               = ChildNames(fs, last.path)

\* one write_file of d/f into the empty workspace WsA, then the workspace
\* root is listed: the answer is the single name d
C9_Witness ==
    /\ last.op = "list_directory"
    /\ last.ws = WsA
    /\ last.rel = Dot
    /\ nops = 1
    /\ IsFile(fs, DirA \o <<<<"d">>, <<"f">>>>)
    /\ fs[DirA \o <<<<"d">>, <<"f">>>>].content = <<>>
    /\ last.resp = Return(<<<<"d">>>>)

\* C10: after a create_directory that returned true, the same call again
\* returns true, raises nothing, and leaves the filesystem as the first call
\* left it.
C10_CreateDirectoryIdempotent ==
    (last.op = "create_directory" /\ last.resp.kind = "return") =>
        Bind(create_directory(fs, last.ws, last.rel), LAMBDA again :
             /\ again.resp = Return(TRUE)
             /\ again.fs = fs)

\* the first call created d/f (and its parent d) in workspace WsA
C10_Witness ==
    /\ last.op = "create_directory"
    /\ last.ws = WsA
    /\ last.rel = <<"d", "/", "f">>
    /\ last.resp = Return(TRUE)
    /\ last.changed
    /\ IsDir(fs, DirA \o <<<<"d">>, <<"f">>>>)

\* C11: over any sequence of create_workspace calls, no call returns in its
\* response a workspace_id that an earlier call has returned.
C11_WorkspaceIdsDistinct ==
    [][(last'.op = "create_workspace" /\ last'.resp.kind = "return")
          => last'.resp.value.workspace_id \notin created]_vars

\* C12: when the id create_workspace generates names a directory that
\* exists, the call returns a failure result with the conflict error, raises
\* nothing, and leaves the filesystem as it was.
C12_CollisionIsConflict ==
    [][(/\ last'.op = "create_workspace"
        /\ last'.arg # <<>>
        /\ IsDir(fs, Append(SandboxRoot, last'.ws)))
          => /\ last'.resp.kind = "return"
             /\ ~last'.resp.value.success
             /\ last'.resp.value.error = Conflict
             /\ last'.resp.value.absolute_path = None
             /\ fs' = fs]_vars

\* the colliding call met workspace WsA holding the file written before it
C12_Witness ==
    /\ last.op = "create_workspace"
    /\ last.ws = WsA
    /\ last.resp.value.error = Conflict
    /\ nops = 1
    /\ IsFile(fs, Append(DirA, <<"f">>))

GitOps == {"git_clone", "git_diff_staged", "git_commit"}

\* the operations whose git command works on an existing repository
RepoOps == {"git_diff_staged", "git_commit"}

\* the call returned a result, and each process of it that exited with a
\* nonzero status gave success false with that status
ReturnsResult(call) ==
    /\ call.resp.kind = "return"
    /\ \A i \in DOMAIN call.ran :
          (call.ran[i].process = "exited" /\ call.ran[i].exit # 0) =>
              /\ call.ran[i].resp.kind = "return"
              /\ ~call.ran[i].resp.value.success
              /\ call.ran[i].resp.value.returncode = call.ran[i].exit

\* the call ran in a directory that exists in f and is in no repository
OutsideRepo(f, call) ==
    call.out = "ok" /\ IsDir(f, call.path) /\ ~InRepo(f, call.path)

FailedWithStderr(call) ==
    /\ call.resp.kind = "return"
    /\ ~call.resp.value.success
    /\ call.resp.value.stderr # <<>>

\* C13 as claimed: every VCS operation returns a result and never raises, a
\* nonzero exit gives success false with that exit code, and any VCS command
\* run in an existing directory that is not a repository gives success false
\* with non-empty stderr.
C13_VcsNeverRaises ==
    [][last'.op \in GitOps =>
          /\ ReturnsResult(last')
          /\ OutsideRepo(fs, last') => FailedWithStderr(last')]_vars

\* C13 amended: as above, with the last part for the commands that work on an
\* existing repository (all but clone).
C13_VcsNeverRaisesRepoCommands ==
    [][last'.op \in GitOps =>
          /\ ReturnsResult(last')
          /\ (last'.op \in RepoOps /\ OutsideRepo(fs, last'))
                => FailedWithStderr(last')]_vars

\* git diff --staged ran in the workspace WsA, which holds no repository, and
\* the process exited with a failure status
C13_Witness ==
    /\ last.op = "git_diff_staged"
    /\ last.ws = WsA
    /\ last.rel = Dot
    /\ OutsideRepo(fs, last)
    /\ last.ran[1].process = "exited"
    /\ last.resp.value.returncode = 128

\* C14: every result a VCS operation returns has the five fields command,
\* stdout, stderr, returncode and success, with success true exactly when
\* returncode is 0.
C14_ResultHasFiveFields ==
    (last.op \in GitOps /\ last.resp.kind = "return") =>
        /\ last.resp.value.keys = GitKeys
        /\ last.resp.value.success = (last.resp.value.returncode = 0)

\* C15: git_commit with add_all runs `add .` first; if that fails the commit
\* is not run and the add's result is returned; if it succeeds, one
\* `commit -m message` runs after it and its result is returned.  Without
\* add_all only the commit runs.
C15_AddThenCommit ==
    last.op = "git_commit" =>
        IF last.arg.add_all
        THEN /\ last.ran[1].args = AddArgs
             /\ ~last.ran[1].resp.value.success =>
                    (Len(last.ran) = 1 /\ last.resp = last.ran[1].resp)
             /\ last.ran[1].resp.value.success =>
                    /\ Len(last.ran) = 2
                    /\ last.ran[2].args = CommitArgs(last.arg.message)
                    /\ last.resp = last.ran[2].resp
        ELSE /\ Len(last.ran) = 1
             /\ last.ran[1].args = CommitArgs(last.arg.message)
             /\ last.resp = last.ran[1].resp

\* `git add .` exited with a failure status and nothing ran after it
C15_Witness ==
    /\ last.op = "git_commit"
    /\ last.arg.add_all
    /\ last.ran[1].process = "exited"
    /\ last.ran[1].exit # 0
    /\ Len(last.ran) = 1
    /\ last.resp.value.command = <<"git", " ", "add", " ", ".">>

\* C16: read_file on a path that exists but is a directory fails with an
\* error kind other than the not-found kind; the not-found kind is produced
\* only when the path does not exist; neither case returns content.
C16_ReadDirectoryIsNotAFile ==
    last.op = "read_file" =>
        /\ (last.out = "ok" /\ IsDir(fs, last.path)) =>
               (last.resp.kind = "raise" /\ last.resp.err # "FileNotFoundError")
        /\ (last.resp.kind = "raise" /\ last.resp.err = "FileNotFoundError") =>
               last.out = "FileNotFoundError"

\* C17: list_directory fails with FileNotFoundError when the resolved path
\* does not exist and with NotADirectoryError when it is a regular file; it
\* returns names only when the path is an existing directory.
C17_ListErrors ==
    last.op = "list_directory" =>
        /\ last.out = "FileNotFoundError" => last.resp = Raise("FileNotFoundError")
        /\ (last.out = "ok" /\ IsFile(fs, last.path)) =>
               last.resp = Raise("NotADirectoryError")
        /\ last.resp.kind = "return" => (last.out = "ok" /\ IsDir(fs, last.path))

\* list_directory was asked for a regular file
C17_Witness ==
    /\ last.op = "list_directory"
    /\ last.out = "ok"
    /\ IsFile(fs, last.path)
    /\ last.resp.kind = "raise"

ResponseFields == {"success", "workspace_id", "absolute_path", "error"}

\* C18: every create_workspace response is a returned value with the fields
\* success, workspace_id, absolute_path and error.  On success the id and the
\* path are set, error is null and the directory sandbox_root/workspace_id
\* exists at absolute_path; on failure absolute_path is null and error is set.
C18_ResponseShape ==
    last.op = "create_workspace" =>
        /\ last.resp.kind = "return"
        /\ DOMAIN last.resp.value = ResponseFields
        /\ last.resp.value.success =>
              /\ last.resp.value.workspace_id # None
              /\ last.resp.value.error = None
              /\ IsDir(fs, Append(SandboxRoot, last.resp.value.workspace_id))
              /\ last.resp.value.absolute_path
                    = Str(Append(SandboxRoot, last.resp.value.workspace_id))
        /\ ~last.resp.value.success =>
              /\ last.resp.value.absolute_path = None
              /\ last.resp.value.error # None

\* the project name " p/q" gave the workspace ws_p_q_00000000
C18_Witness ==
    /\ last.op = "create_workspace"
    /\ last.arg = <<" ", "p", "/", "q">>
    /\ last.resp.value.success
    /\ last.resp.value.workspace_id = <<"w", "s", "_", "p", "_", "q", "_">> \o Hex0

\* ---------------------------------------------------------------- start-up

\* the DIRECTORY_SANDBOX entry is missing from the environment and .env
Unset == <<"unset">>

\* the values of the setting: missing, empty, relative, absolute
SandboxSettings == {Unset, <<>>, <<"s">>, DIRECTORY_SANDBOX}

\* the disk before the server starts
NoSandbox == (<<>> :> DirNode)
SandboxIsFile == (<<>> :> DirNode) @@ (SandboxRoot :> FileNode(<<>>))
Disks == {NoSandbox, SandboxIsFile, EmptySandbox, SandboxWithA, SandboxWithBoth}

\* the check skipped
NotAbsoluteUnchecked(sandbox_path) == FALSE

\* main.py: `if not sandbox_path.is_absolute()`
NotAbsolute(sandbox_path) == ~IsAbsText(sandbox_path)

\* main.py, the configuration load: Settings() fails on a missing entry, the
\* two checks raise ValueError, mkdir may raise OSError; each ends in exit(1)
LoadConfig ==
    /\ pc = "start"
    /\ IF setting = Unset \/ setting = <<>> \/ NotAbsolute(setting)
       THEN pc' = "exit" /\ fs' = fs
       ELSE Bind(mkdir(fs, PathSegs(setting), TRUE, TRUE), LAMBDA m :
                 /\ fs' = m.fs
                 /\ pc' = IF m.err = "none" THEN "serving" ELSE "exit")
    /\ UNCHANGED <<last, nops, created, setting, procs, orch>>

StartupInit ==
    /\ pc = "start"
    /\ setting \in SandboxSettings
    /\ fs \in Disks
    /\ last = NoCall
    /\ nops = 0
    /\ created = {}
    /\ procs = NoProcs
    /\ orch = NoClient

StartupNext ==
    \/ LoadConfig
    \/ Next

StartupSpec == StartupInit /\ [][StartupNext]_vars

\* some component of the path exists and is not a directory
Uncreatable(f, sandbox_path) ==
    \E q \in Prefixes(PathSegs(sandbox_path)) \cup {PathSegs(sandbox_path)} :
        Exists(f, q) /\ ~IsDir(f, q)

\* C19: start-up ends in the failure exit, and never serves, when the sandbox
\* setting is missing or empty, is a relative path, or names a directory that
\* cannot be created; otherwise the sandbox directory exists when serving
\* begins.
C19_StartupRefusesBadSandbox ==
    [][/\ pc = "start" =>
             IF \/ setting \in {Unset, <<>>}
                \/ ~IsAbsText(setting)
                \/ Uncreatable(fs, setting)
             THEN pc' = "exit"
             ELSE pc' = "serving" /\ IsDir(fs', PathSegs(setting))
        /\ pc = "exit" => pc' = "exit"]_vars

\* the sandbox path named a regular file: the server exited
C19_Witness ==
    /\ pc = "exit"
    /\ setting = DIRECTORY_SANDBOX
    /\ IsFile(fs, SandboxRoot)

\* C20: for a relative path without ".." segments, a resolver call that
\* returned a path returns the same path when it is made again with the same
\* arguments, also when the first call created the parent directories.
C20_ResolveIdempotent ==
    (last.op = "resolve" /\ last.out = "ok" /\ ~HasParentSegment(last.rel)) =>
        Bind(resolve_and_validate_path(fs, last.ws, last.rel,
                                       last.arg[1] = "ensure", last.arg[2] = "check"),
             LAMBDA again : again.out = "ok" /\ again.path = last.path)

\* the first call created the directory d of workspace WsA for d/f
C20_Witness ==
    /\ last.op = "resolve"
    /\ last.ws = WsA
    /\ last.rel = <<"d", "/", "f">>
    /\ last.arg[1] = "ensure"
    /\ last.out = "ok"
    /\ last.changed
    /\ IsDir(fs, Append(DirA, <<"d">>))

\* the entries of g that f does not have
NewEntries(f, g) == DOMAIN g \ DOMAIN f

\* every entry of f is in g as it was
Kept(f, g) == \A q \in DOMAIN f : q \in DOMAIN g /\ g[q] = f[q]

\* C21: resolve_and_validate_path changes the filesystem only when
\* ensure_parent_exists is set; it then only creates directories, all of them
\* inside the workspace directory, and leaves every existing entry as it was
\* (stated for ids that name an entry directly below the sandbox root).
C21_ResolverOnlyMakesWorkspaceDirs ==
    [][(/\ last'.op = "resolve"
        /\ WorkspaceDir(fs, last'.ws) = Append(SandboxRoot, last'.ws))
       => /\ last'.arg[1] # "ensure" => fs' = fs
          /\ Kept(fs, fs')
          /\ \A q \in NewEntries(fs, fs') :
                /\ fs'[q] = DirNode
                /\ IsWithin(q, WorkspaceDir(fs, last'.ws))]_vars

\* C22: when write_file or create_directory is rejected with ValueError or
\* SandboxViolationError, the filesystem is as it was before the call: no
\* entry has been created or modified.
C22_RejectionLeavesNoTrace ==
    [][(/\ last'.op \in {"write_file", "create_directory"}
        /\ last'.resp.kind = "raise"
        /\ last'.resp.err \in {"ValueError", "SandboxViolationError"})
       => fs' = fs]_vars

\* the calls of _run_git_command made by the last call served
GitRuns == {last.ran[i] : i \in DOMAIN last.ran}

\* C23: a version-control process is launched only after the resolver has
\* returned a path that is an existing directory inside the workspace
\* directory, and its working directory is exactly that path; when the
\* resolution fails or the path is not a directory, no process is launched.
C23_ProcessOnlyInResolvedDirectory ==
    (last.op \in GitOps) =>
        \A c \in GitRuns :
            /\ c.process = "exited" =>
                  /\ last.out = "ok"
                  /\ c.cwd = last.path
                  /\ IsDir(fs, c.cwd)
                  /\ IsWithin(c.cwd, WorkspaceDir(fs, last.ws))
            /\ (last.out # "ok" \/ ~IsDir(fs, last.path)) => c.process = "none"

\* no entry on the way from the root to sandbox_root/workspace_id/rel is a
\* symbolic link
NoSymlinkOnPath(f, workspace_id, rel) ==
    \A q \in Prefixes(PathJoin(Append(SandboxRoot, workspace_id), normpath(rel))) :
        ~IsLink(f, q)

\* C27: for a workspace id naming an entry directly below the sandbox root,
\* the resolver never rejects with SandboxViolationError a non-empty,
\* non-absolute relative path that has no ".." segment and traverses no symbolic
\* link; a name that only begins with two dots is such a path.
C27_DottedNameNotRejected ==
    (/\ last.op = "resolve"
     /\ last.ws \in {WsA, WsAB}
     /\ last.rel # <<>>
     /\ ~IsAbsText(last.rel)
     /\ ~HasParentSegment(last.rel)
     /\ NoSymlinkOnPath(fs, last.ws, last.rel))
    => last.out # "SandboxViolationError"

\* C28: create_directory returns true only if a directory exists at the
\* resolved path after the call; when a regular file is at that path or at one
\* of its parent segments before the call, the call fails with an I/O error and
\* leaves the filesystem, that file included, as it was.
C28_CreateDirectoryOverFile ==
    [][(last'.op = "create_directory")
       => /\ last'.resp = Return(TRUE)
                => last'.out = "ok" /\ IsDir(fs', last'.path)
          /\ (last'.out = "ok" /\ \E q \in Prefixes(last'.path) : IsFile(fs, q))
                => /\ last'.resp = Raise("OSError")
                   /\ fs' = fs]_vars

\* create_directory of f/g in workspace WsA, where f is a regular file, has
\* failed (a file at a parent segment)
C28_Witness ==
    /\ last.op = "create_directory"
    /\ last.ws = WsA
    /\ last.rel = <<"f", "/", "g">>
    /\ last.resp = Raise("OSError")
    /\ IsFile(fs, Append(DirA, <<"f">>))

\* create_directory of f in workspace WsA, where f is a regular file, has
\* failed (a file at the path itself)
C28_WitnessAtPath ==
    /\ last.op = "create_directory"
    /\ last.ws = WsA
    /\ last.rel = <<"f">>
    /\ last.resp = Raise("OSError")
    /\ IsFile(fs, Append(DirA, <<"f">>))

\* ------------------------------------------------------ concurrent callers
\*
\* Several calls run at once on one filesystem (threads of one server, or
\* several servers on one sandbox).  A call is a sequence of steps: the
\* resolver's checks, then one step for every os.mkdir that Path.mkdir
\* issues, then the rest of the call.  The resolver's checks read the
\* filesystem only through resolve(), whose answer no directory creation
\* changes, so they are one step.

Procs == {1, 2}

\* the calls that may race: resolver calls that create parent directories
\* in workspace WsA, and create_workspace calls
ConcCalls ==
    {[op |-> "resolve", ws |-> WsA, rel |-> rel, ensure |-> ensure, check |-> FALSE,
      project |-> <<>>] :
        rel \in {<<"d", "/", "f">>, <<"d", "/", "e", "/", "f">>}, ensure \in BOOLEAN}
    \cup
    {[op |-> "create_workspace", ws |-> WorkspaceId(project, Hex0), rel |-> Dot,
      ensure |-> FALSE, check |-> FALSE, project |-> project] :
        project \in {<<"p">>, <<"p", "_">> \o Hex0}}

\* what the call answers when nothing else runs
Alone(f, call) ==
    IF call.op = "resolve"
    THEN Bind(resolve_and_validate_path(f, call.ws, call.rel, call.ensure, call.check),
              LAMBDA r : IF r.out = "ok" THEN Return(r.path) ELSE Raise(r.out))
    ELSE create_workspace(f, call.project, Hex0).resp

\* a call that has not started; `lost` and `overlap` are a history of the
\* call: the directories it tried to make and found made, and whether it
\* started while another call was between its first and its last step
Started(f, call) ==
    [call |-> call, pc |-> "start", r |-> NoRes, leaf |-> <<>>, want |-> <<>>,
     phase |-> "down", exist_ok |-> FALSE, lost |-> {}, overlap |-> FALSE,
     resp |-> Return(<<>>),
     alone |-> Alone(f, call)]

ConcInit ==
    /\ fs \in {EmptySandbox, SandboxWithA, SandboxWithBoth}
    /\ procs \in {[p \in Procs |-> Started(fs, c[p])] : c \in [Procs -> ConcCalls]}
    /\ last = NoCall
    /\ nops = 0
    /\ created = {}
    /\ orch = NoClient
    /\ pc = "serving"
    /\ setting = DIRECTORY_SANDBOX

ConcStep(p, new) ==
    /\ procs' = [procs EXCEPT ![p] =
                    IF procs[p].pc = "start"
                    THEN [new EXCEPT !.overlap =
                             \E q \in Procs \ {p} : procs[q].pc \notin {"start", "done"}]
                    ELSE new]
    /\ UNCHANGED <<last, nops, created, pc, setting, orch>>

\* security.py:39-64 (workspace.py:53-59 for create_workspace): the checks
\* before anything is created
Validate(p) ==
    /\ procs[p].pc = "start"
    /\ fs' = fs
    /\ Bind(procs[p], LAMBDA me :
       Bind(resolve_and_validate_path(fs, me.call.ws, me.call.rel, FALSE, FALSE),
            LAMBDA r :
       IF me.call.op = "create_workspace" /\ me.call.project = <<>>
       THEN ConcStep(p, [me EXCEPT !.pc = "done",
                            !.resp = Return(Failure(None, <<"ValueError">>))])
       ELSE IF r.out # "ok"
       THEN ConcStep(p, [me EXCEPT !.pc = "done", !.r = Res(r),
                            !.resp = IF me.call.op = "resolve" THEN Raise(r.out)
                                     ELSE Return(Failure(None, <<r.out>>))])
       ELSE IF me.call.op = "create_workspace"
       THEN ConcStep(p, [me EXCEPT !.pc = "mkdir", !.r = Res(r), !.leaf = r.path,
                            !.want = r.path, !.exist_ok = CreateWorkspaceExistOk])
       ELSE IF me.call.ensure
       THEN ConcStep(p, [me EXCEPT !.pc = "mkdir", !.r = Res(r),
                            !.leaf = Parent(r.path), !.want = Parent(r.path),
                            !.exist_ok = EnsureParentExistOk])
       ELSE ConcStep(p, [me EXCEPT !.pc = "after", !.r = Res(r)])))

\* the call's mkdir has failed with the error err
MkdirRaised(p, err) ==
    Bind(procs[p], LAMBDA me :
    IF me.call.op = "resolve"
    THEN ConcStep(p, [me EXCEPT !.pc = "done", !.resp = Raise(err)])
    ELSE IF err = "FileExistsError"
    THEN ConcStep(p, [me EXCEPT !.pc = "done", !.lost = me.lost \cup {me.want},
                         !.resp = Return(Failure(me.call.ws, Conflict))])
    ELSE ConcStep(p, [me EXCEPT !.pc = "done",
                         !.resp = Return(Failure(me.call.ws, <<"OS error">>))]))

\* the directory `want` is there: Path.mkdir returns at this level and the
\* level below makes its second attempt, with parents=False
MkdirReturned(p, found) ==
    Bind(procs[p], LAMBDA me :
    IF me.want = me.leaf
    THEN ConcStep(p, [me EXCEPT !.pc = "after", !.lost = me.lost \cup found])
    ELSE ConcStep(p, [me EXCEPT !.want = SubSeq(me.leaf, 1, Len(me.want) + 1),
                         !.phase = "up", !.lost = me.lost \cup found]))

\* one os.mkdir(want) of Path.mkdir(parents=True, exist_ok=...):
\*   FileNotFoundError: with parents, the parent is made first (exist_ok=True)
\*     and the directory is tried again; the second attempt re-raises;
\*   any other OSError: swallowed if exist_ok and the path is a directory
\*     (an ancestor is always made with exist_ok=True).
\* No call removes or replaces an entry, so the is_dir() after the failed
\* os.mkdir sees what os.mkdir saw and is part of the step.
OsMkdir(p) ==
    /\ procs[p].pc = "mkdir"
    /\ Bind(procs[p], LAMBDA me :
       IF Exists(fs, me.want)
       THEN /\ fs' = fs
            /\ IF (me.want # me.leaf \/ me.exist_ok) /\ IsDir(fs, me.want)
               THEN MkdirReturned(p, {me.want})
               ELSE MkdirRaised(p, "FileExistsError")
       ELSE IF \E q \in Prefixes(me.want) : IsFile(fs, q)
       THEN fs' = fs /\ MkdirRaised(p, "NotADirectoryError")
       ELSE IF ~IsDir(fs, Parent(me.want))
       THEN /\ fs' = fs
            /\ IF me.phase = "up"
               THEN MkdirRaised(p, "FileNotFoundError")
               ELSE ConcStep(p, [me EXCEPT !.want = Parent(me.want)])
       ELSE /\ fs' = Put(fs, me.want, DirNode)
            /\ MkdirReturned(p, {}))

\* security.py:70-78 after the parents were made (workspace.py:66-72 for
\* create_workspace): the last checks and the answer
Finish(p) ==
    /\ procs[p].pc = "after"
    /\ fs' = fs
    /\ Bind(procs[p], LAMBDA me :
       IF me.call.op = "create_workspace"
       THEN ConcStep(p, [me EXCEPT !.pc = "done",
                            !.resp = Return([success |-> TRUE,
                                             workspace_id |-> me.call.ws,
                                             absolute_path |-> Str(me.r.path),
                                             error |-> None])])
       ELSE IF me.call.ensure /\ ~TargetInWorkspace(Parent(me.r.path), me.r.wsroot)
       THEN ConcStep(p, [me EXCEPT !.pc = "done", !.resp = Raise("SandboxViolationError")])
       ELSE IF me.call.check /\ ~Exists(fs, me.r.path)
       THEN ConcStep(p, [me EXCEPT !.pc = "done", !.resp = Raise("FileNotFoundError")])
       ELSE ConcStep(p, [me EXCEPT !.pc = "done", !.resp = Return(me.r.path)]))

ConcNext == \E p \in Procs : Validate(p) \/ OsMkdir(p) \/ Finish(p)

ConcSpec == ConcInit /\ [][ConcNext]_vars

\* every call has answered
AllDone == \A p \in Procs : procs[p].pc = "done"

\* C24: of resolver calls with ensure_parent_exists that run at once on paths
\* of one workspace, every one that returns a path when run alone returns
\* that same path in every interleaving; none fails because another call made
\* a directory first.
C24_ConcurrentEnsureSucceeds ==
    \A p \in Procs :
        (/\ procs # NoProcs
         /\ procs[p].pc = "done"
         /\ procs[p].call.op = "resolve"
         /\ procs[p].call.ensure
         /\ procs[p].alone.kind = "return")
        => procs[p].resp = procs[p].alone

\* two calls for d/f and d/e/f of workspace WsA both returned after racing for
\* the missing directories ws and ws/d: the first found ws missing, went to
\* make it, and then found both ws and ws/d made by the second
C24_Witness ==
    /\ procs # NoProcs
    /\ AllDone
    /\ procs[1].call = [op |-> "resolve", ws |-> WsA, rel |-> <<"d", "/", "f">>,
                        ensure |-> TRUE, check |-> FALSE, project |-> <<>>]
    /\ procs[2].call = [op |-> "resolve", ws |-> WsA,
                        rel |-> <<"d", "/", "e", "/", "f">>,
                        ensure |-> TRUE, check |-> FALSE, project |-> <<>>]
    /\ procs[1].resp = Return(DirA \o <<<<"d">>, <<"f">>>>)
    /\ procs[2].resp = Return(DirA \o <<<<"d">>, <<"e">>, <<"f">>>>)
    /\ IsDir(fs, DirA \o <<<<"d">>, <<"e">>>>)
    /\ procs[1].lost = {DirA, Append(DirA, <<"d">>)}
    /\ procs[2].overlap

\* the call's answer is a create_workspace success
Succeeded(p) == procs[p].resp.kind = "return" /\ procs[p].resp.value.success

\* C26: when two create_workspace calls run at once for the same generated
\* id, whose directory is not there when they start, then in every
\* interleaving of their steps exactly one answers success=true and the other
\* answers the conflict failure.
C26_RaceHasOneWinner ==
    \A p, q \in Procs :
        (/\ procs # NoProcs
         /\ p # q
         /\ AllDone
         /\ procs[p].call.op = "create_workspace"
         /\ procs[q].call.op = "create_workspace"
         /\ procs[p].call.ws = procs[q].call.ws
         /\ procs[p].alone.value.success)
        => \/ Succeeded(p) /\ procs[q].resp = Return(Failure(procs[q].call.ws, Conflict))
           \/ Succeeded(q) /\ procs[p].resp = Return(Failure(procs[p].call.ws, Conflict))

\* two create_workspace calls for project p ran at once: the second started
\* while the first was under way, found the directory made and answered the
\* conflict; the first answered success
C26_Witness ==
    /\ procs # NoProcs
    /\ AllDone
    /\ procs[1].call.op = "create_workspace"
    /\ procs[2].call.op = "create_workspace"
    /\ procs[1].call.ws = WsA
    /\ procs[2].call.ws = WsA
    /\ Succeeded(1)
    /\ procs[2].overlap
    /\ procs[2].lost = {DirA}
    /\ procs[2].resp = Return(Failure(WsA, Conflict))
    /\ IsDir(fs, DirA)

\* --------------------------------------------------- orchestrating clients
\*
\* One run of `python client.py` (orchestrator/client.py) or of
\* `python orchestrator_client.py`: the module is loaded, main() starts the
\* server subprocess, connects, and serves the user's inputs until the user
\* quits or an exception ends the loop; the finally clause shuts down.
\* `orch.pc` is the position in the module and in main.

Clients == {"client", "orchestrator_client"}

\* the generators load_prompt_generators found, in the order of the dict
GenLists ==
    { <<>>, <<"swot_analysis">>, <<"swot_analysis", "cost_benefit_analysis">> }

\* what a generator function does with the problem: it returns a prompt,
\* returns an empty string, or raises an Exception
GenOutcomes == {"prompt", "empty", "raise"}

Prompt == <<"p">>

\* the except clause of run_prompt_generator left out
PromptGeneratorFailedUncaught(name) == Raise("Exception")

\* client.py: run_prompt_generator's `except Exception: return name, None`
PromptGeneratorFailed(name) == Return(<<name, None>>)

\* client.py: run_prompt_generator(name, func, problem)
run_prompt_generator(name, outcome) ==
    IF outcome = "raise" THEN PromptGeneratorFailed(name)
    ELSE IF outcome = "empty" THEN Return(<<name, <<>>>>)
    ELSE Return(<<name, Prompt>>)

\* `if prompt_str:` a non-empty string
Truthy(prompt_str) == prompt_str # None /\ prompt_str # <<>>

\* client.py: successful_generators after the loop over generated_prompts
successful_generators(generated_prompts) ==
    Cardinality({i \in DOMAIN generated_prompts : Truthy(generated_prompts[i][2])})

\* a loop that goes on to the solver whatever was generated
NoPerspectiveIgnored(successful) == FALSE

\* client.py: `if successful_generators == 0: ... continue`
NoPerspective(successful) == successful = 0

\* orch.lazy: the interpreter evaluates annotations lazily (Python 3.14 on);
\* orch.server: the subprocess started by create_subprocess_exec ("none",
\* "running", "exited"); orch.signals: what main sent it; orch.tasks: the
\* tasks of the fan-out; orch.solver: solver calls made for the problem being
\* served; orch.plan: what became of the last solver call.
OrchInit ==
    /\ orch \in {[client |-> c, lazy |-> lazy, pc |-> "load", server |-> "none",
                  signals |-> <<>>, gens |-> gens, problems |-> 0, tasks |-> <<>>,
                  generated |-> <<>>, solver |-> 0, plan |-> "none"] :
                    c \in Clients, lazy \in BOOLEAN, gens \in GenLists}
    /\ fs = EmptySandbox
    /\ last = NoCall
    /\ nops = 0
    /\ created = {}
    /\ procs = NoProcs
    /\ pc = "serving"
    /\ setting = DIRECTORY_SANDBOX

OrchStep(new) ==
    /\ orch' = new
    /\ UNCHANGED <<fs, last, nops, created, pc, setting, procs>>

At(where) == orch.client # "none" /\ orch.pc = where

\* the module body: client.py evaluates the return annotation of
\* run_prompt_generator, which names Tuple, a name the module never imports;
\* with eager annotations that is a NameError and main() is never called
LoadModule ==
    /\ At("load")
    /\ IF orch.client = "client" /\ ~orch.lazy
       THEN OrchStep([orch EXCEPT !.pc = "import_error"])
       ELSE OrchStep([orch EXCEPT !.pc = "spawn"])

\* asyncio.create_subprocess_exec: in client.py inside the try of main, in
\* orchestrator_client.py before it
SpawnServer ==
    /\ At("spawn")
    /\ \E ok \in BOOLEAN :
        IF ok THEN OrchStep([orch EXCEPT !.pc = "connect", !.server = "running"])
        ELSE IF orch.client = "client" THEN OrchStep([orch EXCEPT !.pc = "except"])
        ELSE OrchStep([orch EXCEPT !.pc = "crashed"])

\* entering stdio_client and ClientSession
Connect ==
    /\ At("connect")
    /\ \E ok \in BOOLEAN :
        OrchStep([orch EXCEPT !.pc = IF ok THEN "initialize" ELSE "except"])

\* mcp_session.initialize()
Initialize ==
    /\ At("initialize")
    /\ \E ok \in BOOLEAN :
        OrchStep([orch EXCEPT !.pc = IF ok THEN "input" ELSE "init_failed"])

\* the handler of a failed initialize reads the server's output and returns:
\* client.py waits at most 2 seconds for communicate(), orchestrator_client.py
\* awaits communicate() itself, which returns when the subprocess has exited
ReadServerLogs ==
    /\ At("init_failed")
    /\ orch.client = "orchestrator_client" => orch.server = "exited"
    /\ OrchStep([orch EXCEPT !.pc = "finally"])

\* input(): the user quits, enters a problem, or the input ends (EOFError)
Input ==
    /\ At("input")
    /\ \E what \in {"quit", "problem", "eof"} :
        IF what = "quit" THEN OrchStep([orch EXCEPT !.pc = "finally"])
        ELSE IF what = "eof" THEN OrchStep([orch EXCEPT !.pc = "except"])
        ELSE /\ orch.problems < MaxProblems
             /\ OrchStep([orch EXCEPT
                            !.pc = IF orch.client = "client" THEN "fanout" ELSE "chat",
                            !.problems = orch.problems + 1,
                            !.tasks = <<>>, !.generated = <<>>,
                            !.solver = 0, !.plan = "none"])

\* client.py: one task per loaded generator
FanOut ==
    /\ At("fanout")
    /\ OrchStep([orch EXCEPT
                   !.pc = "gather",
                   !.tasks = [i \in DOMAIN orch.gens |->
                                [name |-> orch.gens[i], state |-> "pending",
                                 outcome |-> "none", result |-> Return(<<>>)]]])

\* one task runs while main awaits gather.  (The event loop starts the tasks
\* in the order of their creation; any order is allowed here.)
RunGenerator ==
    /\ At("gather")
    /\ \E i \in DOMAIN orch.tasks, outcome \in GenOutcomes :
        /\ orch.tasks[i].state = "pending"
        /\ OrchStep([orch EXCEPT
                       !.tasks[i].state = "finished",
                       !.tasks[i].outcome = outcome,
                       !.tasks[i].result =
                           run_prompt_generator(orch.tasks[i].name, outcome)])

\* asyncio.gather(*tasks): the list of the results in the order of the
\* tasks, or the first exception a task raised
Gather ==
    /\ At("gather")
    /\ IF \E i \in DOMAIN orch.tasks :
            orch.tasks[i].state = "finished" /\ orch.tasks[i].result.kind = "raise"
       THEN OrchStep([orch EXCEPT !.pc = "except"])
       ELSE /\ \A i \in DOMAIN orch.tasks : orch.tasks[i].state = "finished"
            /\ OrchStep([orch EXCEPT
                           !.pc = "synthesize",
                           !.generated = [i \in DOMAIN orch.tasks |->
                                            orch.tasks[i].result.value]])

\* client.py: the input of the solver is put together, or the loop continues
Synthesize ==
    /\ At("synthesize")
    /\ IF NoPerspective(successful_generators(orch.generated))
       THEN OrchStep([orch EXCEPT !.pc = "input"])
       ELSE OrchStep([orch EXCEPT !.pc = "solver"])

\* client.py: gemini_model.generate_content_async and response.text
InvokeSolver ==
    /\ At("solver")
    /\ \E ok \in BOOLEAN :
        IF ok THEN OrchStep([orch EXCEPT !.pc = "parse", !.solver = orch.solver + 1])
        ELSE OrchStep([orch EXCEPT !.pc = "input", !.solver = orch.solver + 1,
                          !.plan = "failed"])

\* client.py: json.loads and McKinseySolutionPlan.model_validate
ParsePlan ==
    /\ At("parse")
    /\ \E plan \in {"printed", "undecodable", "invalid"} :
        OrchStep([orch EXCEPT !.pc = "input", !.plan = plan])

\* orchestrator_client.py: chat.send_message_async and parse_tool_call
Chat ==
    /\ At("chat")
    /\ \E answer \in {"text", "tool", "raise"} :
        OrchStep([orch EXCEPT !.pc = IF answer = "text" THEN "input"
                                     ELSE IF answer = "tool" THEN "tool"
                                     ELSE "except"])

\* orchestrator_client.py: call_tool, then the result or the error is sent to
\* the model; a failure of that last send leaves the loop
CallTool ==
    /\ At("tool")
    /\ \E sent \in BOOLEAN :
        OrchStep([orch EXCEPT !.pc = IF sent THEN "input" ELSE "except"])

\* `except Exception` around the session: the error is logged
HandleError ==
    /\ At("except")
    /\ OrchStep([orch EXCEPT !.pc = "finally"])

\* finally: `if mcp_server_process and mcp_server_process.returncode is None`
Finally ==
    /\ At("finally")
    /\ OrchStep([orch EXCEPT !.pc = IF orch.server = "running" THEN "terminate"
                                     ELSE "shutdown"])

\* mcp_server_process.terminate(); ProcessLookupError if it is gone
Terminate ==
    /\ At("terminate")
    /\ IF orch.server = "running"
       THEN OrchStep([orch EXCEPT !.pc = "wait",
                         !.signals = Append(orch.signals, "terminate")])
       ELSE OrchStep([orch EXCEPT !.pc = "shutdown"])

\* asyncio.wait_for(mcp_server_process.wait(), timeout=5.0): the wait returns
\* when the subprocess has exited, or times out
WaitForExit ==
    /\ At("wait")
    /\ IF orch.server = "exited" THEN OrchStep([orch EXCEPT !.pc = "shutdown"])
       ELSE OrchStep([orch EXCEPT !.pc = "kill"])

\* mcp_server_process.kill()
Kill ==
    /\ At("kill")
    /\ OrchStep([orch EXCEPT !.pc = "shutdown", !.server = "exited",
                    !.signals = Append(orch.signals, "kill")])

\* the subprocess exits by itself, or after the terminate it was sent
ServerExits ==
    /\ orch.client # "none"
    /\ orch.server = "running"
    /\ orch.pc # "shutdown"
    /\ OrchStep([orch EXCEPT !.server = "exited"])

\* the steps of main and of its tasks
MainStep ==
    \/ LoadModule \/ SpawnServer \/ Connect \/ Initialize \/ ReadServerLogs
    \/ FanOut \/ RunGenerator \/ Gather \/ Synthesize \/ InvokeSolver \/ ParsePlan
    \/ Chat \/ CallTool \/ HandleError \/ Finally \/ Terminate \/ WaitForExit \/ Kill

OrchNext == MainStep \/ Input \/ ServerExits

\* main and its tasks keep running; the user and the subprocess owe nothing
OrchSpec == OrchInit /\ [][OrchNext]_vars /\ WF_vars(MainStep)

\* C25: in the fan-out of client.py no task ends with an exception, whatever
\* generators raise, and when gather has returned every task has finished and
\* the gathered list has one entry per loaded generator, in their order, each
\* with the generator's name; the entry of a generator that raised has no
\* prompt.
C25_FanOutToleratesFailure ==
    orch.client = "client" =>
        /\ \A i \in DOMAIN orch.tasks : orch.tasks[i].result.kind = "return"
        /\ At("synthesize") =>
              /\ Len(orch.generated) = Len(orch.gens)
              /\ \A i \in DOMAIN orch.gens :
                    /\ orch.tasks[i].state = "finished"
                    /\ orch.generated[i][1] = orch.gens[i]
                    /\ orch.tasks[i].outcome = "raise" => orch.generated[i][2] = None

\* gather has returned two entries: the first generator raised, the second
\* returned its prompt
C25_Witness ==
    /\ orch.client = "client"
    /\ At("synthesize")
    /\ Len(orch.tasks) = 2
    /\ orch.tasks[1].outcome = "raise"
    /\ orch.generated = << <<"swot_analysis", None>>, <<"cost_benefit_analysis", Prompt>> >>

\* some gathered entry has a non-empty prompt
SomePrompt == \E i \in DOMAIN orch.generated : Truthy(orch.generated[i][2])

\* C30: for each problem entered in client.py the solver is invoked at most
\* once, and only when every generator task has finished and some gathered
\* prompt is non-empty; when no gathered prompt is non-empty the solver is not
\* invoked and the loop goes back to the input; after the solver call and
\* after the parsing of its output, whether they failed or not, the loop goes
\* on.
C30_SolverOncePerProblem ==
    [][orch.client = "client" =>
        /\ (orch'.solver = orch.solver + 1) =>
              /\ orch.solver = 0
              /\ Len(orch.generated) = Len(orch.gens)
              /\ \A i \in DOMAIN orch.tasks : orch.tasks[i].state = "finished"
              /\ SomePrompt
        /\ (At("synthesize") /\ ~SomePrompt /\ orch'.pc # orch.pc) =>
              /\ orch'.pc = "input"
              /\ orch'.solver = 0
        /\ (At("solver") /\ orch'.pc # orch.pc) => orch'.pc \in {"parse", "input"}
        /\ (At("parse") /\ orch'.pc # orch.pc) => orch'.pc = "input"]_vars

\* the second problem can be entered: for the first, one of two generators
\* raised, the solver was called once and its answer could not be decoded
C30_Witness ==
    /\ orch.client = "client"
    /\ At("input")
    /\ orch.problems = 1
    /\ orch.solver = 1
    /\ orch.plan = "undecodable"
    /\ orch.generated = << <<"swot_analysis", None>>, <<"cost_benefit_analysis", Prompt>> >>

\* both generators failed: the solver was not called and the next problem can
\* be entered
C30_WitnessNoPerspective ==
    /\ orch.client = "client"
    /\ At("input")
    /\ orch.problems = 1
    /\ orch.solver = 0
    /\ orch.generated = << <<"swot_analysis", None>>, <<"cost_benefit_analysis", <<>>>> >>

\* main has left its loop, or never reached it: the user quit, the MCP
\* initialization failed, or an exception was raised
ExitTaken ==
    /\ orch.client # "none"
    /\ orch.pc \in {"init_failed", "except", "finally", "crashed"}

\* C29: in both clients, once main is on an exit path (user quit, MCP
\* initialization failure, exception) it reaches its shutdown step, and at the
\* shutdown step the server subprocess is not running: it was sent terminate
\* and, when it had not exited by the end of the wait, kill.
C29_MainShutsDown ==
    /\ [](ExitTaken => <>At("shutdown"))
    /\ [](At("shutdown") => orch.server # "running")
    /\ []((orch.client # "none" /\ orch.signals # <<>>) => orch.signals[1] = "terminate")

====
